---- MODULE Spec2Model ----
(***************************************************************************)
(* Model of Lit_Project.py: the module-level credential check followed by  *)
(* main(): load_pdf_text, get_user_quote, the case-insensitive match       *)
(* check, explain_quote_with_gpt, analyze_quote_nlp and the citation.      *)
(*                                                                         *)
(* Python strings are sequences of one-character strings.  The external    *)
(* collaborators (PdfReader, input(), the OpenAI client, TextBlob) are the *)
(* environment: each result they can hand back is a nondeterministic       *)
(* choice from a small set.                                                *)
(***************************************************************************)
EXTENDS Integers, Sequences, FiniteSets, TLC

\* ------------------------------------------------------------------ bounds
\* Largest number of pages reader.pages yields.
MaxPages == 3
\* Interpreter recursion limit, scaled down (CPython's default is 1000):
\* the number of nested get_user_quote frames that can be active.
RecursionLimit == 3
\* Polarity is n / PolDenom for n in -PolDenom..PolDenom.
PolDenom == 10

\* --------------------------------------------------------- string helpers
Whitespace == {" ", "\n"}

\* Python's None and a not-yet-assigned variable; neither is a string.
NoneVal == <<"<None>">>
Unset == <<"<unset>">>

\* str.lower() on one character of the model's alphabet.
lower_char(c) ==
  CASE c = "A" -> "a"
    [] c = "B" -> "b"
    [] OTHER -> c

\* str.lower()
lower(s) == [i \in 1..Len(s) |-> lower_char(s[i])]

RECURSIVE lstrip(_)
\* str.lstrip(): drop leading whitespace.
lstrip(s) ==
  IF s # <<>> /\ Head(s) \in Whitespace THEN lstrip(Tail(s)) ELSE s

RECURSIVE rstrip(_)
\* str.rstrip(): drop trailing whitespace.
rstrip(s) ==
  IF s # <<>> /\ s[Len(s)] \in Whitespace
  THEN rstrip(SubSeq(s, 1, Len(s) - 1))
  ELSE s

\* A plausible slip: only the leading whitespace is removed.
strip_leading_only(s) == lstrip(s)

\* str.strip()
strip(s) == rstrip(lstrip(s))

\* Does s start with prefix p at (0-based) offset k?
starts_at(s, p, k) ==
  /\ k + Len(p) <= Len(s)
  /\ \A i \in 1..Len(p) : s[k + i] = p[i]

RECURSIVE find_from(_, _, _)
\* Left-to-right scan used by the substring operator `sub in s`.
find_from(s, sub, k) ==
  IF k + Len(sub) > Len(s) THEN FALSE
  ELSE IF starts_at(s, sub, k) THEN TRUE
  ELSE find_from(s, sub, k + 1)

\* Python truthiness of a page extraction: None and "" are falsy.
truthy(v) == v # NoneVal /\ v # <<>>

\* The slip of lower-casing only the quote.
quote_in_text_one_sided(quote, text) == find_from(text, lower(quote), 0)

\* user_quote.lower() in pdf_text.lower()
quote_in_text(quote, text) == find_from(lower(text), lower(quote), 0)

\* ------------------------------------------------------ environment values
\* What page.extract_text() can hand back.
PageVals == {NoneVal, <<>>, <<"A", "b">>, <<"b", " ", "a">>}

\* What input(">>> ") can hand back (a line never holds a newline).
Lines ==
  { <<>>, <<" ">>,
    <<" ", "a", "B", " ">>,
    <<"B", " ", "a">>,
    <<"b", ".", "a">> }

\* Fixed fallback strings of explain_quote_with_gpt.
FALLBACK_API == <<"Could not generate explanation due to an API error.">>
FALLBACK_TIMEOUT == <<"Could not generate explanation due to a timeout.">>
FALLBACK_UNEXPECTED == <<"Could not generate explanation due to an unexpected error.">>
Fallbacks == {FALLBACK_API, FALLBACK_TIMEOUT, FALLBACK_UNEXPECTED}

\* message.content of a successful response.
Contents == {<<" ", "o", "k", "\n">>, <<" ">>}

StatusCodes == {401, 500}

\* Every way client.chat.completions.create and the read of
\* response.choices[0].message.content can end.
Outcomes ==
  [kind : {"ok"}, code : {0}, content : Contents]
    \cup [kind : {"ok_content_none", "ok_no_choices", "timeout",
                  "connection", "other"}, code : {0}, content : {<<>>}]
    \cup [kind : {"status"}, code : StatusCodes, content : {<<>>}]

NoOutcome == [kind |-> "none", code |-> 0, content |-> <<>>]

\* ------------------------------------------------ explain_quote_with_gpt
\* The exception the try block raises for an outcome ("" when none).
raised(o) ==
  CASE o.kind = "ok" -> ""
    [] o.kind = "ok_content_none" -> "AttributeError"
    [] o.kind = "ok_no_choices" -> "IndexError"
    [] o.kind = "status" -> "APIStatusError"
    [] o.kind = "timeout" -> "APITimeoutError"
    [] o.kind = "connection" -> "APIConnectionError"
    [] OTHER -> "Exception"

\* isinstance(exc, cls) for the classes the except clauses name.
is_instance(exc, cls) ==
  CASE cls = "APIStatusError" -> exc = "APIStatusError"
    [] cls = "APITimeoutError" -> exc = "APITimeoutError"
    [] cls = "Exception" -> exc # ""
    [] OTHER -> FALSE

\* The handler with the two specific fallbacks exchanged.
explain_result_swapped(o) ==
  LET exc == raised(o) IN
  IF exc = ""
  THEN [returned |-> TRUE, value |-> strip(o.content),
        logs |-> <<"EXPLANATION_RECEIVED">>]
  ELSE IF is_instance(exc, "APIStatusError")
  THEN [returned |-> TRUE, value |-> FALLBACK_TIMEOUT,
        logs |-> IF o.code = 401
                 THEN <<"API_STATUS_ERROR", "AUTH_401_HINT">>
                 ELSE <<"API_STATUS_ERROR">>]
  ELSE IF is_instance(exc, "APITimeoutError")
  THEN [returned |-> TRUE, value |-> FALLBACK_API,
        logs |-> <<"API_TIMEOUT">>]
  ELSE [returned |-> TRUE, value |-> FALLBACK_UNEXPECTED,
        logs |-> <<"UNEXPECTED_ERROR">>]

\* The handler without the final `except Exception` clause.
explain_result_no_catch_all(o) ==
  LET exc == raised(o) IN
  IF exc = ""
  THEN [returned |-> TRUE, value |-> strip(o.content),
        logs |-> <<"EXPLANATION_RECEIVED">>]
  ELSE IF is_instance(exc, "APIStatusError")
  THEN [returned |-> TRUE, value |-> FALLBACK_API,
        logs |-> IF o.code = 401
                 THEN <<"API_STATUS_ERROR", "AUTH_401_HINT">>
                 ELSE <<"API_STATUS_ERROR">>]
  ELSE IF is_instance(exc, "APITimeoutError")
  THEN [returned |-> TRUE, value |-> FALLBACK_TIMEOUT,
        logs |-> <<"API_TIMEOUT">>]
  ELSE [returned |-> FALSE, value |-> Unset, logs |-> <<>>]

\* try/except of explain_quote_with_gpt: the value returned and the
\* diagnostics printed for an outcome of the remote call.
explain_result(o) ==
  LET exc == raised(o) IN
  IF exc = ""
  THEN [returned |-> TRUE, value |-> strip(o.content),
        logs |-> <<"EXPLANATION_RECEIVED">>]
  ELSE IF is_instance(exc, "APIStatusError")
  THEN [returned |-> TRUE, value |-> FALLBACK_API,
        logs |-> IF o.code = 401
                 THEN <<"API_STATUS_ERROR", "AUTH_401_HINT">>
                 ELSE <<"API_STATUS_ERROR">>]
  ELSE IF is_instance(exc, "APITimeoutError")
  THEN [returned |-> TRUE, value |-> FALLBACK_TIMEOUT,
        logs |-> <<"API_TIMEOUT">>]
  ELSE IF is_instance(exc, "Exception")
  THEN [returned |-> TRUE, value |-> FALLBACK_UNEXPECTED,
        logs |-> <<"UNEXPECTED_ERROR">>]
  ELSE [returned |-> FALSE, value |-> Unset, logs |-> <<>>]

\* ------------------------------------------------------ analyze_quote_nlp
\* The thresholds made inclusive.
tone_of_inclusive(n) ==
  IF 10 * n >= 3 * PolDenom THEN "TONE_POSITIVE"
  ELSE IF 10 * n <= -3 * PolDenom THEN "TONE_NEGATIVE"
  ELSE "TONE_NEUTRAL"

\* if polarity > 0.3 / elif polarity < -0.3 / else, for polarity
\* n / PolDenom (n / PolDenom > 3 / 10 iff 10 * n > 3 * PolDenom).
tone_of(n) ==
  IF 10 * n > 3 * PolDenom THEN "TONE_POSITIVE"
  ELSE IF 10 * n < -3 * PolDenom THEN "TONE_NEGATIVE"
  ELSE "TONE_NEUTRAL"

\* ---------------------------------------------------------- load_pdf_text
\* The loop body with the `if page_text:` test dropped for "".
add_page_blank_line(text, page_text) ==
  IF page_text # NoneVal THEN text \o page_text \o <<"\n">> ELSE text

\* Loop body of load_pdf_text: `if page_text: text += page_text + "\n"`.
add_page(text, page_text) ==
  IF truthy(page_text) THEN text \o page_text \o <<"\n">> ELSE text

\* ------------------------------------------------------------------ state
VARIABLES
  pc,           \* position of the single thread of control
  api_key,      \* os.getenv("OPENAI_API_KEY"): "<None>", "" or a key
  file_exists,  \* os.path.exists(file_path)
  pages,        \* extractions of the pages iterated so far in load_pdf_text
  text,         \* accumulator local to load_pdf_text
  pdf_text,     \* main's pdf_text
  inputs,       \* lines read from standard input so far
  depth,        \* recursive get_user_quote calls outstanding
  user_quote,   \* main's user_quote
  prompt_quote, \* quote embedded in the user message of the remote call
  calls,        \* invocations of client.chat.completions.create
  outcome,      \* how the remote call ended
  explanation,  \* main's explanation
  nlp_quote,    \* argument of analyze_quote_nlp
  polarity,     \* numerator of sentiment.polarity
  out,          \* console output, one tag per message
  stages,       \* stages of main begun so far
  exit_code,    \* process exit status, -1 while running
  uncaught      \* exception that left main uncaught, "" if none

vars == <<pc, api_key, file_exists, pages, text, pdf_text, inputs, depth,
          user_quote, prompt_quote, calls, outcome, explanation, nlp_quote,
          polarity, out, stages, exit_code, uncaught>>

NoPolarity == PolDenom + 1

Init ==
  /\ pc = "start"
  /\ api_key \in {"<None>", "", "sk-key"}
  /\ file_exists \in BOOLEAN
  /\ pages = <<>>
  /\ text = Unset
  /\ pdf_text = Unset
  /\ inputs = <<>>
  /\ depth = 0
  /\ user_quote = Unset
  /\ prompt_quote = Unset
  /\ calls = 0
  /\ outcome = NoOutcome
  /\ explanation = Unset
  /\ nlp_quote = Unset
  /\ polarity = NoPolarity
  /\ out = <<>>
  /\ stages = <<>>
  /\ exit_code = -1
  /\ uncaught = ""

\* exit(1): the process stops with status 1.
Exit1(msgs) ==
  /\ pc' = "halted"
  /\ out' = out \o msgs
  /\ exit_code' = 1
  /\ uncaught' = ""

\* An exception nobody catches: traceback, status 1.
Traceback(exc, msgs) ==
  /\ pc' = "halted"
  /\ out' = out \o msgs
  /\ exit_code' = 1
  /\ uncaught' = exc

\* ---------------------------------------------------------------- actions
\* Module level, lines 11-24: read the credential, stop if it is missing.
check_api_key ==
  /\ pc = "start"
  /\ IF api_key = "<None>" \/ api_key = ""
     THEN Exit1(<<"ERR_KEY_MISSING">>)
     ELSE /\ pc' = "main"
          /\ UNCHANGED <<out, exit_code, uncaught>>
  /\ UNCHANGED <<api_key, file_exists, pages, text, pdf_text, inputs, depth,
                 user_quote, prompt_quote, calls, outcome, explanation,
                 nlp_quote, polarity, stages>>

\* load_pdf_text, lines 38-46: the existence test, then PdfReader(file_path)
\* inside the try; a raise there reaches the except clause and exit(1).
load_pdf_open ==
  /\ pc = "main"
  /\ stages' = Append(stages, "load")
  /\ IF ~file_exists
     THEN /\ Exit1(<<"ERR_PDF_NOT_FOUND">>)
          /\ UNCHANGED text
     ELSE \E reader_ok \in BOOLEAN :
            IF reader_ok
            THEN /\ pc' = "load_pages"
                 /\ text' = <<>>
                 /\ out' = Append(out, "ATTEMPT_LOAD")
                 /\ UNCHANGED <<exit_code, uncaught>>
            ELSE /\ Exit1(<<"ATTEMPT_LOAD", "ERR_PDF_READ">>)
                 /\ UNCHANGED text
  /\ UNCHANGED <<api_key, file_exists, pages, pdf_text, inputs, depth,
                 user_quote, prompt_quote, calls, outcome, explanation,
                 nlp_quote, polarity>>

\* load_pdf_text, lines 47-51: one iteration of the page loop.
load_pdf_page ==
  /\ pc = "load_pages"
  /\ Len(pages) < MaxPages
  /\ \E page_text \in PageVals :
       /\ pages' = Append(pages, page_text)
       /\ text' = add_page(text, page_text)
  /\ UNCHANGED <<pc, api_key, file_exists, pdf_text, inputs, depth,
                 user_quote, prompt_quote, calls, outcome, explanation,
                 nlp_quote, polarity, out, stages, exit_code, uncaught>>

\* A parse error that hands the text read so far back to main.
load_pdf_page_error_partial ==
  /\ pc = "load_pages"
  /\ Len(pages) < MaxPages
  /\ pc' = "collect"
  /\ pdf_text' = text
  /\ out' = Append(out, "ERR_PDF_READ")
  /\ UNCHANGED <<api_key, file_exists, pages, text, inputs, depth,
                 user_quote, prompt_quote, calls, outcome, explanation,
                 nlp_quote, polarity, stages, exit_code, uncaught>>

\* load_pdf_text, lines 49 and 54-57: page.extract_text() raises; the
\* except clause prints the diagnostic and calls exit(1); text is dropped.
load_pdf_page_error ==
  /\ pc = "load_pages"
  /\ Len(pages) < MaxPages
  /\ Exit1(<<"ERR_PDF_READ">>)
  /\ UNCHANGED <<api_key, file_exists, pages, text, pdf_text, inputs, depth,
                 user_quote, prompt_quote, calls, outcome, explanation,
                 nlp_quote, polarity, stages>>

\* load_pdf_text, lines 52-53, and line 140: the pages are exhausted, the
\* text is returned and bound to pdf_text; the locals reader and text go
\* out of scope.
load_pdf_return ==
  /\ pc = "load_pages"
  /\ pdf_text' = text
  /\ pages' = <<>>
  /\ text' = Unset
  /\ pc' = "collect"
  /\ out' = Append(out, "PDF_LOADED")
  /\ UNCHANGED <<api_key, file_exists, inputs, depth,
                 user_quote, prompt_quote, calls, outcome, explanation,
                 nlp_quote, polarity, stages, exit_code, uncaught>>

\* One frame of get_user_quote, lines 60-70 (called at line 143): prompt,
\* read a line, strip it; an empty result recurses (a new frame), a
\* non-empty one is returned through every active frame to main.  input()
\* raises EOFError when standard input is exhausted, and the recursive call
\* raises RecursionError once RecursionLimit frames are active; main
\* catches neither.
get_user_quote ==
  /\ pc = "collect"
  /\ stages' = IF depth = 0 THEN Append(stages, "collect") ELSE stages
  /\ \/ \E line \in Lines :
          LET quote == strip(line) IN
          /\ inputs' = Append(inputs, line)
          /\ IF quote = <<>>
             THEN IF depth + 1 < RecursionLimit
                  THEN /\ depth' = depth + 1
                       /\ out' = out \o <<"QUOTE_PROMPT", "WARN_NO_QUOTE">>
                       /\ UNCHANGED <<pc, user_quote, exit_code, uncaught>>
                  ELSE /\ Traceback("RecursionError",
                                    <<"QUOTE_PROMPT", "WARN_NO_QUOTE">>)
                       /\ UNCHANGED <<depth, user_quote>>
             ELSE /\ user_quote' = quote
                  /\ depth' = 0
                  /\ pc' = "match"
                  /\ out' = Append(out, "QUOTE_PROMPT")
                  /\ UNCHANGED <<exit_code, uncaught>>
     \/ /\ Traceback("EOFError", <<"QUOTE_PROMPT">>)
        /\ UNCHANGED <<inputs, depth, user_quote>>
  /\ UNCHANGED <<api_key, file_exists, pages, text, pdf_text, prompt_quote,
                 calls, outcome, explanation, nlp_quote, polarity>>

\* The match check that skips the explanation when the quote is absent.
check_match_short_circuit ==
  /\ pc = "match"
  /\ stages' = Append(stages, "match")
  /\ IF quote_in_text(user_quote, pdf_text)
     THEN /\ out' = Append(out, "QUOTE_FOUND")
          /\ pc' = "explain"
     ELSE /\ out' = Append(out, "WARN_NOT_FOUND")
          /\ pc' = "nlp"
  /\ UNCHANGED <<api_key, file_exists, pages, text, pdf_text, inputs, depth,
                 user_quote, prompt_quote, calls, outcome, explanation,
                 nlp_quote, polarity, exit_code, uncaught>>

\* main, lines 145-151: the case-insensitive containment test; only the
\* message printed depends on it.
check_match ==
  /\ pc = "match"
  /\ stages' = Append(stages, "match")
  /\ out' = Append(out, IF quote_in_text(user_quote, pdf_text)
                        THEN "QUOTE_FOUND" ELSE "WARN_NOT_FOUND")
  /\ pc' = "explain"
  /\ UNCHANGED <<api_key, file_exists, pages, text, pdf_text, inputs, depth,
                 user_quote, prompt_quote, calls, outcome, explanation,
                 nlp_quote, polarity, exit_code, uncaught>>

\* explain_quote_with_gpt calling the service again after a failure.
explain_quote_with_gpt_retry ==
  /\ pc = "explain"
  /\ stages' = IF calls = 0 THEN Append(stages, "explain") ELSE stages
  /\ prompt_quote' = user_quote
  /\ calls' = calls + 1
  /\ \E o \in Outcomes :
       LET r == explain_result(o) IN
       /\ outcome' = o
       /\ IF raised(o) # "" /\ calls = 0
          THEN /\ UNCHANGED <<pc, explanation>>
               /\ out' = out \o r.logs
          ELSE /\ explanation' = r.value
               /\ out' = out \o <<"EXPLAIN_HEADER">> \o r.logs
               /\ pc' = "print_explanation"
  /\ UNCHANGED <<api_key, file_exists, pages, text, pdf_text, inputs, depth,
                 user_quote, nlp_quote, polarity, exit_code, uncaught>>

\* explain_quote_with_gpt, lines 73-107, called at line 154: one call of
\* client.chat.completions.create with the quote in the prompt, then the
\* try/except maps its outcome to the returned string.
explain_quote_with_gpt ==
  /\ pc = "explain"
  /\ stages' = Append(stages, "explain")
  /\ prompt_quote' = user_quote
  /\ calls' = calls + 1
  /\ \E o \in Outcomes :
       LET r == explain_result(o) IN
       /\ outcome' = o
       /\ IF r.returned
          THEN /\ explanation' = r.value
               /\ out' = out \o <<"EXPLAIN_HEADER">> \o r.logs
               /\ pc' = "print_explanation"
               /\ UNCHANGED <<exit_code, uncaught>>
          ELSE /\ Traceback(raised(o), <<"EXPLAIN_HEADER">>)
               /\ UNCHANGED explanation
  /\ UNCHANGED <<api_key, file_exists, pages, text, pdf_text, inputs, depth,
                 user_quote, nlp_quote, polarity>>

\* main, lines 155-156: print the header and the explanation.
print_explanation ==
  /\ pc = "print_explanation"
  /\ stages' = Append(stages, "print_explanation")
  /\ out' = out \o <<"RESULT_HEADER", "EXPLANATION">>
  /\ pc' = "nlp"
  /\ UNCHANGED <<api_key, file_exists, pages, text, pdf_text, inputs, depth,
                 user_quote, prompt_quote, calls, outcome, explanation,
                 nlp_quote, polarity, exit_code, uncaught>>

\* analyze_quote_nlp, lines 110-131, called at line 159: TextBlob scores
\* the quote, the scores are printed, then one of three interpretations.
analyze_quote_nlp ==
  /\ pc = "nlp"
  /\ stages' = Append(stages, "sentiment")
  /\ nlp_quote' = user_quote
  /\ \E n \in -PolDenom..PolDenom :
       /\ polarity' = n
       /\ out' = out \o <<"NLP_HEADER", "POLARITY", "SUBJECTIVITY", tone_of(n)>>
  /\ pc' = "citation"
  /\ UNCHANGED <<api_key, file_exists, pages, text, pdf_text, inputs, depth,
                 user_quote, prompt_quote, calls, outcome, explanation,
                 exit_code, uncaught>>

\* main, lines 161-165, then the normal end of the script.
print_citation ==
  /\ pc = "citation"
  /\ stages' = Append(stages, "citation")
  /\ out' = out \o <<"CITATION", "FINISHED">>
  /\ pc' = "done"
  /\ exit_code' = 0
  /\ UNCHANGED <<api_key, file_exists, pages, text, pdf_text, inputs, depth,
                 user_quote, prompt_quote, calls, outcome, explanation,
                 nlp_quote, polarity, uncaught>>

Next ==
  \/ check_api_key
  \/ load_pdf_open
  \/ load_pdf_page
  \/ load_pdf_page_error
  \/ load_pdf_return
  \/ get_user_quote
  \/ check_match
  \/ explain_quote_with_gpt
  \/ print_explanation
  \/ analyze_quote_nlp
  \/ print_citation

Spec == Init /\ [][Next]_vars

\* The single thread always takes its next step while one exists.
LiveSpec == Spec /\ WF_vars(Next)

\* ----------------------------------------------------------------- helpers
Printed(tag) == \E i \in 1..Len(out) : out[i] = tag

IsPrefix(s, t) == Len(s) <= Len(t) /\ SubSeq(t, 1, Len(s)) = s

AllWhitespace(s) == \A i \in 1..Len(s) : s[i] \in Whitespace

\* q is line with whitespace, and nothing else, removed from both ends.
IsTrimOf(q, line) ==
  /\ q = <<>> => AllWhitespace(line)
  /\ q # <<>> =>
       /\ q[1] \notin Whitespace
       /\ q[Len(q)] \notin Whitespace
       /\ \E i \in 1..Len(line) :
            /\ i + Len(q) - 1 <= Len(line)
            /\ SubSeq(line, i, i + Len(q) - 1) = q
            /\ AllWhitespace(SubSeq(line, 1, i - 1))
            /\ AllWhitespace(SubSeq(line, i + Len(q), Len(line)))

\* sub occurs in s as a run of adjacent characters.
IsContiguousSubstring(sub, s) ==
  \E i \in 1..(Len(s) + 1) :
    /\ i + Len(sub) - 1 <= Len(s)
    /\ SubSeq(s, i, i + Len(sub) - 1) = sub

AfterCollect == {"match", "explain", "print_explanation", "nlp", "citation", "done"}
AfterMatch == {"explain", "print_explanation", "nlp", "citation", "done"}
AfterExplain == {"print_explanation", "nlp", "citation", "done"}

ErrorTags == {"API_STATUS_ERROR", "AUTH_401_HINT", "API_TIMEOUT", "UNEXPECTED_ERROR"}

\* ------------------------------------------------------------------ claims

\* C1: once the match check has run, "found" was printed exactly when the
\* lower-cased quote is a contiguous substring of the lower-cased document
\* text, and the "not found" warning exactly when it is not; the quote and
\* the text are compared as they are, apart from case.
C1_MatchIffSubstring ==
  pc \in AfterMatch =>
    LET inside == IsContiguousSubstring(lower(user_quote), lower(pdf_text)) IN
    /\ Printed("QUOTE_FOUND") <=> inside
    /\ Printed("WARN_NOT_FOUND") <=> ~inside

\* C1 witness: a quote reported found only because of case folding.
C1_Witness ==
  /\ pc \in AfterMatch
  /\ Printed("QUOTE_FOUND")
  /\ ~IsContiguousSubstring(user_quote, pdf_text)
  /\ ~IsContiguousSubstring(lower(user_quote), pdf_text)

\* C2: whenever get_user_quote has returned, the quote is neither empty nor
\* whitespace-only, it is the trimmed form of the last line read, every
\* line read before that one was empty after trimming, and the quote given
\* to the remote call and to the sentiment analysis is that same quote.
C2_QuoteNonEmptyTrimmed ==
  pc \in AfterCollect =>
    /\ user_quote # Unset
    /\ user_quote # <<>>
    /\ ~AllWhitespace(user_quote)
    /\ inputs # <<>>
    /\ IsTrimOf(user_quote, inputs[Len(inputs)])
    /\ \A i \in 1..(Len(inputs) - 1) : AllWhitespace(inputs[i])
    /\ prompt_quote \in {Unset, user_quote}
    /\ nlp_quote \in {Unset, user_quote}

\* C2 witness: two empty submissions, then a line that needed trimming.
C2_Witness ==
  /\ pc = "match"
  /\ Len(inputs) = 3
  /\ inputs[1] = <<>>
  /\ inputs[2] = <<" ">>
  /\ inputs[3] # user_quote

\* C3: after explain_quote_with_gpt, a 401 status error gave the API-error
\* fallback and the 401 diagnostic was printed; a timeout gave the timeout
\* fallback; a success gave the trimmed generated text, which is none of
\* the fallback strings, and no failure diagnostic was printed.
C3_OutcomeMapping ==
  pc \in AfterExplain =>
    /\ (outcome.kind = "status" /\ outcome.code = 401) =>
         /\ explanation = FALLBACK_API
         /\ Printed("API_STATUS_ERROR")
         /\ Printed("AUTH_401_HINT")
    /\ outcome.kind = "timeout" =>
         /\ explanation = FALLBACK_TIMEOUT
         /\ Printed("API_TIMEOUT")
    /\ outcome.kind = "ok" =>
         /\ IsTrimOf(explanation, outcome.content)
         /\ explanation \notin Fallbacks
         /\ \A t \in ErrorTags : ~Printed(t)

\* C3 witness: the authentication failure has been handled.
C3_Witness ==
  /\ pc = "print_explanation"
  /\ outcome.kind = "status"
  /\ outcome.code = 401
  /\ Printed("AUTH_401_HINT")

\* C4: once the remote call has been made, no exception has left
\* explain_quote_with_gpt, and the value it returned is the trimmed
\* generated text on success and one of the fixed fallback strings on every
\* failure.
C4_NeverRaises ==
  calls > 0 =>
    /\ uncaught = ""
    /\ pc \in AfterExplain
    /\ explanation # Unset
    /\ explanation # NoneVal
    /\ IF outcome.kind = "ok"
       THEN IsTrimOf(explanation, outcome.content)
       ELSE explanation \in Fallbacks

\* C4 witness: the content of a successful response could not be read.
C4_Witness ==
  /\ pc = "print_explanation"
  /\ outcome.kind = "ok_content_none"
  /\ explanation = FALLBACK_UNEXPECTED

RECURSIVE PagesText(_)
\* Each non-empty extraction followed by one newline, in page order.
PagesText(ps) ==
  IF ps = <<>> THEN <<>>
  ELSE LET p == Head(ps) IN
       (IF p = NoneVal \/ Len(p) = 0 THEN <<>> ELSE p \o <<"\n">>)
         \o PagesText(Tail(ps))

\* C5: the step in which load_pdf_text returns binds pdf_text to the
\* concatenation, in page order, of every non-empty page extraction
\* followed by one newline; empty and absent extractions add nothing.
C5_PageConcatenation ==
  [][(pc = "load_pages" /\ pc' = "collect") => pdf_text' = PagesText(pages)]_vars

\* C5 witness: pages p1, empty, p3 were read and the text is p1 \n p3 \n.
C5_Witness ==
  /\ pc = "load_pages"
  /\ pages = <<<<"A", "b">>, <<>>, <<"b", " ", "a">>>>
  /\ text = <<"A", "b", "\n", "b", " ", "a", "\n">>

\* Nothing after the load stage has happened.
NoLaterStage ==
  /\ pdf_text = Unset
  /\ inputs = <<>>
  /\ user_quote = Unset
  /\ calls = 0
  /\ explanation = Unset
  /\ polarity = NoPolarity
  /\ \A t \in {"PDF_LOADED", "QUOTE_PROMPT", "QUOTE_FOUND", "WARN_NOT_FOUND",
              "EXPLAIN_HEADER", "EXPLANATION", "NLP_HEADER", "CITATION",
              "FINISHED"} : ~Printed(t)

\* C6: a missing credential never gets past the module-level check and
\* stops with a diagnostic and status 1 before the load stage begins; a
\* missing file never gets past the existence test; a fatal diagnostic is
\* printed only by a process that stops there; every exit(1) leaves a
\* diagnostic, status 1, no text handed to main and no later stage begun;
\* and a stopped process takes no further step.
C6_FatalStops ==
  /\ [](/\ (api_key \in {"<None>", ""}) =>
             /\ pc \in {"start", "halted"}
             /\ stages = <<>>
             /\ pc = "halted" => Printed("ERR_KEY_MISSING")
        /\ (api_key = "sk-key" /\ ~file_exists) =>
             /\ pc \in {"start", "main", "halted"}
             /\ pc = "halted" => Printed("ERR_PDF_NOT_FOUND")
        /\ (\E t \in {"ERR_KEY_MISSING", "ERR_PDF_NOT_FOUND", "ERR_PDF_READ"} :
              Printed(t)) =>
             /\ pc = "halted"
             /\ uncaught = ""
        /\ (pc = "halted" /\ uncaught = "") =>
             /\ exit_code = 1
             /\ NoLaterStage
             /\ \/ stages = <<>> /\ Printed("ERR_KEY_MISSING")
                \/ stages = <<"load">> /\ Printed("ERR_PDF_NOT_FOUND")
                \/ stages = <<"load">> /\ Printed("ERR_PDF_READ"))
  /\ [][pc # "halted"]_vars

\* C6 witness: a parse error after some text was accumulated; the process
\* has stopped and the partial text was not returned.
C6_Witness ==
  /\ pc = "halted"
  /\ Printed("ERR_PDF_READ")
  /\ text = <<"A", "b", "\n">>
  /\ pdf_text = Unset
  /\ exit_code = 1

StageOrder ==
  <<"load", "collect", "match", "explain", "print_explanation",
    "sentiment", "citation">>

\* C7: the stages begun are always an initial part of the fixed order, a
\* finished run has begun all of them, the explanation is requested with
\* the collected quote once the match check is over whatever it printed,
\* and the match check itself changes only the console and the position.
C7_FixedStageOrder ==
  /\ [](/\ IsPrefix(stages, StageOrder)
        /\ pc = "done" => stages = StageOrder
        /\ pc \in AfterExplain =>
             /\ calls = 1
             /\ prompt_quote = user_quote
             /\ Printed("QUOTE_FOUND") \/ Printed("WARN_NOT_FOUND"))
  /\ [][pc = "match" =>
          /\ pc' = "explain"
          /\ UNCHANGED <<pdf_text, user_quote, prompt_quote, calls, outcome,
                         explanation, nlp_quote, polarity, exit_code,
                         uncaught>>]_vars

\* C7 witness: a finished run whose quote was not found in the document.
C7_Witness ==
  /\ pc = "done"
  /\ Printed("WARN_NOT_FOUND")
  /\ calls = 1
  /\ stages = StageOrder

\* C8 as stated, for the runs that have ended: when the credential is
\* present and the document was loaded, the process ends only by printing
\* the citation and exiting normally.
C8_LoadedRunEndsNormally ==
  (api_key = "sk-key" /\ pdf_text # Unset /\ exit_code # -1) =>
    (pc = "done" /\ exit_code = 0 /\ Printed("CITATION"))

\* C8 amended: once get_user_quote has returned a quote, the run
\* eventually prints the citation and exits normally, whatever the outcome
\* of the remote call.
C8_QuoteLeadsToDone ==
  (pc = "match") ~> (pc = "done" /\ exit_code = 0 /\ Printed("CITATION"))

\* C8 witness: a run that finished normally after the remote call timed out.
C8_Witness ==
  /\ pc = "done"
  /\ exit_code = 0
  /\ outcome.kind = "timeout"
  /\ explanation = FALLBACK_TIMEOUT
  /\ Printed("CITATION")

Tones == {"TONE_POSITIVE", "TONE_NEGATIVE", "TONE_NEUTRAL"}

\* C9: once analyze_quote_nlp has run, exactly one interpretation has been
\* printed: positive exactly when polarity > 0.3, negative exactly when
\* polarity < -0.3, neutral exactly when -0.3 <= polarity <= 0.3.
C9_ToneThresholds ==
  polarity # NoPolarity =>
    /\ Cardinality({i \in 1..Len(out) : out[i] \in Tones}) = 1
    /\ Printed("TONE_POSITIVE") <=> polarity * 10 > 3 * PolDenom
    /\ Printed("TONE_NEGATIVE") <=> polarity * 10 < (-3) * PolDenom
    /\ Printed("TONE_NEUTRAL") <=>
         (polarity * 10 <= 3 * PolDenom /\ polarity * 10 >= (-3) * PolDenom)

\* C9 witness: the largest polarity that is not above 0.3 (0.3 itself when
\* representable) was reported neutral.
C9_Witness ==
  /\ polarity # NoPolarity
  /\ polarity * 10 <= 3 * PolDenom
  /\ (polarity + 1) * 10 > 3 * PolDenom
  /\ Printed("TONE_NEUTRAL")

\* C10: the program invokes the generation call at most once per run, not
\* at all before the explanation stage and exactly once from then on, and
\* after a failed call the fallback string has been returned.
C10_SingleAttempt ==
  /\ calls <= 1
  /\ calls = 1 <=> (\E i \in 1..Len(stages) : stages[i] = "explain")
  /\ (calls = 1 /\ raised(outcome) # "") =>
       /\ explanation \in Fallbacks
       /\ pc \in AfterExplain

\* C10 witness: a finished run whose single call failed to connect.
C10_Witness ==
  /\ pc = "done"
  /\ calls = 1
  /\ outcome.kind = "connection"
  /\ explanation = FALLBACK_UNEXPECTED

====
